---- MODULE Spec2Model ----
(***************************************************************************)
(* A model of src/train.py: the metric helper calculate_f1, the            *)
(* pretraining loop train_gan, the combined loop train_combined_cgan and   *)
(* evaluate_model.  One run of the model is one call of one entry point    *)
(* (variable prog): calculate_f1, train_gan, train_combined_cgan,          *)
(* evaluate_model, or the derivation of num_nodes that the two loops and   *)
(* evaluate_model share.  The networks, the loaders, the renderer          *)
(* and the loss functions are external; what they return is drawn from     *)
(* small sets.  Parameters and optimizer states are version counters: the  *)
(* number of optimizer steps applied to them.                              *)
(***************************************************************************)
EXTENDS Integers, Sequences, FiniteSets, TLC

VARIABLES
    prog,       \* the entry point that was called
    pc,         \* the position in it
    \* ---- calculate_f1
    preds, labels, f1_out,
    \* ---- arguments of the training loops
    epochs, patience, n_batches, n_val, num_z_samples,
    \* ---- loop position and per-epoch accumulators
    epoch, batch_idx, total_g_loss, total_d_loss, total_c_loss,
    \* ---- networks (parameter versions) and optimizers (step counts)
    generator, discriminator, classifier,
    optimizer_g, optimizer_d, optimizer_c,
    scheduler_g, scheduler_d, scheduler_c,
    \* ---- logs: the CSV file (header row first) and the metrics dictionary
    csv, metrics,
    \* ---- train_gan
    best_g_loss, best_d_loss,
    g_epochs_without_improvement, d_epochs_without_improvement,
    stop_training_g, stop_training_d,
    save_path_g, save_path_d, discriminator_accuracy,
    \* ---- train_combined_cgan
    best_accuracy, epochs_without_improvement, val_accuracy,
    save_path, metrics_pth,
    generated_layouts, classified, batch_trace, mean_clf_loss,
    \* ---- the batch at hand: its input layouts, the node counts derived
    \* ---- from them, and the backward calls made on it so far
    graph_layouts, num_nodes, backward_calls,
    \* ---- evaluate_model
    accum_logits, outputs, predicted, calls, correct, total, accuracy

f1vars == <<preds, labels, f1_out>>
argvars == <<epochs, patience, n_batches, n_val, num_z_samples>>
loopvars == <<epoch, batch_idx, total_g_loss, total_d_loss, total_c_loss>>
netvars == <<generator, discriminator, classifier>>
optvars == <<optimizer_g, optimizer_d, optimizer_c>>
schedvars == <<scheduler_g, scheduler_d, scheduler_c>>
logvars == <<csv, metrics>>
ganvars == <<best_g_loss, best_d_loss, g_epochs_without_improvement,
             d_epochs_without_improvement, stop_training_g, stop_training_d,
             save_path_g, save_path_d, discriminator_accuracy>>
combvars == <<best_accuracy, epochs_without_improvement, val_accuracy,
              save_path, metrics_pth, generated_layouts, classified,
              batch_trace, mean_clf_loss>>
batchvars == <<graph_layouts, num_nodes, backward_calls>>
evalvars == <<accum_logits, outputs, predicted, calls, correct, total,
              accuracy>>
vars == <<prog, pc, f1vars, argvars, loopvars, netvars, optvars, schedvars,
          logvars, ganvars, combvars, batchvars, evalvars>>

----------------------------------------------------------------------------
(* Bounds of the model.                                                    *)

\* longest prediction / label vector handed to calculate_f1
MaxLen == 3
\* largest epochs argument
MaxEpochs == 3
\* largest patience argument
MaxPatience == 2
\* largest number of batches a training loader yields
MaxBatches == 2
\* largest number of batches the validation loader yields
MaxValBatches == 1
\* largest num_z_samples argument
MaxZ == 2
\* graphs per batch
BatchSize == 2
\* coordinate rows of a (zero-padded) layout
MaxNodes == 2

----------------------------------------------------------------------------
(* Exact arithmetic for calculate_f1.  A natural number is the sequence of *)
(* its digits in base EpsInv, least significant first; a non-negative      *)
(* rational is a record [n, d] of two naturals.  The epsilon 1e-8 of the   *)
(* code is 1 / EpsInv.  The code computes in float32, which rounds the     *)
(* exact values below by far less than the tolerance the properties use.   *)

EpsInv == 100000000

Max(a, b) == IF a >= b THEN a ELSE b

Dig(p, i) == IF 1 <= i /\ i <= Len(p) THEN p[i] ELSE 0

RECURSIVE Carry(_, _)
Carry(p, c) ==
    IF p = <<>>
    THEN IF c = 0 THEN <<>> ELSE <<c % EpsInv>> \o Carry(<<>>, c \div EpsInv)
    ELSE <<(Head(p) + c) % EpsInv>> \o Carry(Tail(p), (Head(p) + c) \div EpsInv)

RECURSIVE Strip(_)
Strip(p) ==
    IF p # <<>> /\ p[Len(p)] = 0 THEN Strip(SubSeq(p, 1, Len(p) - 1)) ELSE p

Norm(p) == Strip(Carry(p, 0))

NatOf(k) == Norm(<<k>>)

NAdd(p, q) == Norm([i \in 1..Max(Len(p), Len(q)) |-> Dig(p, i) + Dig(q, i)])

RECURSIVE Conv(_, _, _, _)
\* sum of p[i] * q[k + 1 - i] for i in lo..Len(p)
Conv(p, q, k, lo) ==
    IF lo > Len(p) THEN 0
    ELSE p[lo] * Dig(q, k + 1 - lo) + Conv(p, q, k, lo + 1)

NMul(p, q) ==
    IF p = <<>> \/ q = <<>> THEN <<>>
    ELSE Norm([k \in 1..(Len(p) + Len(q)) |-> Conv(p, q, k, 1)])

RECURSIVE NLessFrom(_, _, _)
NLessFrom(p, q, i) ==
    IF i = 0 THEN FALSE
    ELSE IF p[i] # q[i] THEN p[i] < q[i]
    ELSE NLessFrom(p, q, i - 1)

NLess(p, q) ==
    IF Len(p) # Len(q) THEN Len(p) < Len(q) ELSE NLessFrom(p, q, Len(p))

NLeq(p, q) == ~NLess(q, p)

Rat(k) == [n |-> NatOf(k), d |-> NatOf(1)]
Eps == [n |-> NatOf(1), d |-> <<0, 1>>]
RAdd(x, y) == [n |-> NAdd(NMul(x.n, y.d), NMul(y.n, x.d)), d |-> NMul(x.d, y.d)]
RMul(x, y) == [n |-> NMul(x.n, y.n), d |-> NMul(x.d, y.d)]
RDiv(x, y) == [n |-> NMul(x.n, y.d), d |-> NMul(x.d, y.n)]
RIsZero(x) == x.n = <<>>
RLeq(x, y) == NLeq(NMul(x.n, y.d), NMul(y.n, x.d))

----------------------------------------------------------------------------
(* calculate_f1 (src/train.py 10-30)                                       *)

RECURSIVE SumSeq(_)
SumSeq(s) == IF s = <<>> THEN 0 ELSE Head(s) + SumSeq(Tail(s))

\* the four confusion-matrix counts, by elementwise products
TruePos(p, l) == SumSeq([i \in 1..Len(p) |-> p[i] * l[i]])
TrueNeg(p, l) == SumSeq([i \in 1..Len(p) |-> (1 - p[i]) * (1 - l[i])])
FalsePos(p, l) == SumSeq([i \in 1..Len(p) |-> p[i] * (1 - l[i])])
FalseNeg(p, l) == SumSeq([i \in 1..Len(p) |-> (1 - p[i]) * l[i]])

\* line 26
Precision(p, l) ==
    RDiv(Rat(TruePos(p, l)), RAdd(Rat(TruePos(p, l) + FalsePos(p, l)), Eps))

\* line 27
Recall(p, l) ==
    RDiv(Rat(TruePos(p, l)), RAdd(Rat(TruePos(p, l) + FalseNeg(p, l)), Eps))

F1ScoreNotDoubled(p, l) ==
    RDiv(RMul(Precision(p, l), Recall(p, l)),
         RAdd(RAdd(Precision(p, l), Recall(p, l)), Eps))

\* line 28
F1Score(p, l) ==
    RDiv(RMul(Rat(2), RMul(Precision(p, l), Recall(p, l))),
         RAdd(RAdd(Precision(p, l), Recall(p, l)), Eps))

calculate_f1(p, l) ==
    [precision |-> Precision(p, l), recall |-> Recall(p, l), f1 |-> F1Score(p, l)]

BinSeqs(n) == [1..n -> {0, 1}]

\* f1_out before the call returns
NoResult == [precision |-> Rat(0), recall |-> Rat(0), f1 |-> Rat(0)]

----------------------------------------------------------------------------
(* Small rationals for losses and accuracies: [num, den] with den >= 0.    *)
(* float('inf') is 1/0; Python's a < b is the cross-multiplied comparison. *)

Q(a, b) == [num |-> a, den |-> b]
Inf == Q(1, 0)
QLess(a, b) == a.num * b.den < b.num * a.den
QEq(a, b) == a.num * b.den = b.num * a.den

\* a checkpoint file that was never written
NoFile == [written |-> FALSE]

OptimizerNoStep(count) == count

\* optimizer.step() (lines 177, 212, 422, 502, 510) on an optimizer or on the
\* parameters it owns
OptimizerStep(count) == count + 1

ReplaceRows(file, row) == <<"header", row>>

\* open(log_path, 'a') and writer.writerow (lines 295-297, 353-355, 586-588)
AppendRow(file, row) == Append(file, row)

----------------------------------------------------------------------------
(* The batch at hand                                                       *)

\* lines 141, 370, 684: what the loader yields as the layouts of its batch k
\* (counted from 0): graph i has (k + i) % (MaxNodes + 1) nodes, the other
\* rows of its layout are zero padding
LoaderBatch(k) ==
    [i \in 1..BatchSize |->
        [r \in 1..MaxNodes |->
            IF r <= (k + i) % (MaxNodes + 1) THEN <<r, 0 - i>> ELSE <<0, 0>>]]

\* torch.norm(.., dim=2) of one row is the root of this sum, and is
\* positive exactly when the sum is
NormSquared(row) == row[1] * row[1] + row[2] * row[2]

EveryRowMask(layout) == [r \in 1..Len(layout) |-> 1]

\* lines 149, 385, 691: torch.norm(graph_layouts, dim=2) > 0 for one graph
non_zero_nodes_mask(layout) ==
    [r \in 1..Len(layout) |-> IF NormSquared(layout[r]) > 0 THEN 1 ELSE 0]

\* lines 151, 387, 694: non_zero_nodes_mask.sum(dim=1)
NumNodes(layouts) ==
    [i \in 1..Len(layouts) |-> SumSeq(non_zero_nodes_mask(layouts[i]))]

\* loss.backward(retain_graph=...)
Backward(loss, retain) == [loss |-> loss, retain_graph |-> retain]

\* before the first batch and before the first call of evaluate_model
NoCalls == [randn |-> 0, generator |-> 0, classifier |-> 0]

NoBatch ==
    /\ graph_layouts = <<>> /\ num_nodes = <<>> /\ backward_calls = <<>>
    /\ accum_logits = <<>> /\ outputs = <<>> /\ predicted = <<>>
    /\ calls = NoCalls /\ correct = 0 /\ total = 0 /\ accuracy = Q(0, 1)

----------------------------------------------------------------------------
(* calculate_f1 called on its own                                          *)

InitF1 ==
    /\ prog = "calculate_f1"
    /\ pc = "f1_call"
    /\ \E n \in 0..MaxLen : preds \in BinSeqs(n) /\ labels \in BinSeqs(n)
    /\ f1_out = NoResult
    /\ epochs = 0 /\ patience = 0 /\ n_batches = 0 /\ n_val = 0
    /\ num_z_samples = 0
    /\ epoch = 0 /\ batch_idx = 0
    /\ total_g_loss = 0 /\ total_d_loss = 0 /\ total_c_loss = 0
    /\ generator = 0 /\ discriminator = 0 /\ classifier = 0
    /\ optimizer_g = 0 /\ optimizer_d = 0 /\ optimizer_c = 0
    /\ scheduler_g = 0 /\ scheduler_d = 0 /\ scheduler_c = 0
    /\ csv = <<>> /\ metrics = <<>>
    /\ best_g_loss = Inf /\ best_d_loss = Inf
    /\ g_epochs_without_improvement = 0 /\ d_epochs_without_improvement = 0
    /\ stop_training_g = FALSE /\ stop_training_d = FALSE
    /\ save_path_g = NoFile /\ save_path_d = NoFile
    /\ discriminator_accuracy = Q(0, 1)
    /\ best_accuracy = Q(0, 1) /\ epochs_without_improvement = 0
    /\ val_accuracy = Q(0, 1)
    /\ save_path = NoFile /\ metrics_pth = <<>>
    /\ generated_layouts = <<>> /\ classified = <<>> /\ batch_trace = <<>>
    /\ mean_clf_loss = 0
    /\ NoBatch

CalculateF1 ==
    /\ prog = "calculate_f1" /\ pc = "f1_call"
    /\ f1_out' = calculate_f1(preds, labels)
    /\ pc' = "f1_done"
    /\ UNCHANGED <<prog, batchvars, evalvars,
                   preds, labels, argvars, loopvars, netvars, optvars,
                   schedvars, logvars, ganvars, combvars>>

----------------------------------------------------------------------------
(* train_gan (src/train.py 88-297)                                         *)

\* the values a batch's d_loss and g_loss are drawn from (Wasserstein losses
\* take either sign)
GanLossVals == {-1, 1}

InitGan ==
    /\ prog = "train_gan"
    /\ pc = "gan_start"
    /\ preds = <<>> /\ labels = <<>> /\ f1_out = NoResult
    /\ epochs \in 0..MaxEpochs
    /\ patience \in 0..MaxPatience
    /\ n_batches \in 0..MaxBatches
    /\ n_val = 0 /\ num_z_samples = 0
    /\ epoch = 0 /\ batch_idx = 0
    /\ total_g_loss = 0 /\ total_d_loss = 0 /\ total_c_loss = 0
    /\ generator = 0 /\ discriminator = 0 /\ classifier = 0
    /\ optimizer_g = 0 /\ optimizer_d = 0 /\ optimizer_c = 0
    /\ scheduler_g = 0 /\ scheduler_d = 0 /\ scheduler_c = 0
    /\ csv = <<>> /\ metrics = <<>>
    /\ best_g_loss = Inf /\ best_d_loss = Inf
    /\ g_epochs_without_improvement = 0 /\ d_epochs_without_improvement = 0
    /\ stop_training_g = FALSE /\ stop_training_d = FALSE
    /\ save_path_g = NoFile /\ save_path_d = NoFile
    /\ discriminator_accuracy = Q(0, 1)
    /\ best_accuracy = Q(0, 1) /\ epochs_without_improvement = 0
    /\ val_accuracy = Q(0, 1)
    /\ save_path = NoFile /\ metrics_pth = <<>>
    /\ generated_layouts = <<>> /\ classified = <<>> /\ batch_trace = <<>>
    /\ mean_clf_loss = 0
    /\ NoBatch

\* lines 90-121: the log file is created with its header row
GanStart ==
    /\ prog = "train_gan" /\ pc = "gan_start"
    /\ csv' = <<"header">>
    /\ pc' = "gan_epoch"
    /\ UNCHANGED <<prog, batchvars, evalvars,
                   f1vars, argvars, loopvars, netvars, optvars,
                   schedvars, metrics, ganvars, combvars>>

GanNeverBothFrozen == FALSE

\* line 124: the test at the head of the epoch loop
GanBothFrozen == stop_training_g /\ stop_training_d

\* lines 123-126: both networks frozen, the loop breaks
GanBreak ==
    /\ prog = "train_gan" /\ pc = "gan_epoch"
    /\ epoch < epochs
    /\ GanBothFrozen
    /\ pc' = "gan_done"
    /\ UNCHANGED <<prog, batchvars, evalvars,
                   f1vars, argvars, loopvars, netvars, optvars,
                   schedvars, logvars, ganvars, combvars>>

\* line 123: range(epochs) is exhausted
GanExhausted ==
    /\ prog = "train_gan" /\ pc = "gan_epoch"
    /\ epoch >= epochs
    /\ pc' = "gan_done"
    /\ UNCHANGED <<prog, batchvars, evalvars,
                   f1vars, argvars, loopvars, netvars, optvars,
                   schedvars, logvars, ganvars, combvars>>

\* lines 128-139: an epoch begins, the accumulators are reset
GanEpochBegin ==
    /\ prog = "train_gan" /\ pc = "gan_epoch"
    /\ epoch < epochs
    /\ ~GanBothFrozen
    /\ total_g_loss' = 0 /\ total_d_loss' = 0
    /\ batch_idx' = 0
    /\ batch_trace' = <<>>
    /\ pc' = "gan_batch"
    /\ UNCHANGED <<prog, batchvars, evalvars,
                   f1vars, argvars, epoch, total_c_loss, netvars,
                   optvars, schedvars, logvars, ganvars, best_accuracy,
                   epochs_without_improvement, val_accuracy, save_path,
                   metrics_pth, generated_layouts, classified, mean_clf_loss>>

\* lines 163-178: the critic's step, taken unless it is frozen
GanCriticSteps == ~stop_training_d

GanGeneratorStepsAlways == TRUE

\* lines 195-214: the generator's step, taken unless it is frozen
GanGeneratorSteps == ~stop_training_g

\* lines 141-237: one batch
GanBatch ==
    /\ prog = "train_gan" /\ pc = "gan_batch"
    /\ batch_idx < n_batches
    /\ \E d_loss \in GanLossVals, g_loss \in GanLossVals :
        /\ IF GanCriticSteps
           THEN /\ optimizer_d' = OptimizerStep(optimizer_d)
                /\ discriminator' = OptimizerStep(discriminator)
                /\ total_d_loss' = total_d_loss + d_loss
           ELSE UNCHANGED <<optimizer_d, discriminator, total_d_loss>>
        /\ IF GanGeneratorSteps
           THEN /\ optimizer_g' = OptimizerStep(optimizer_g)
                /\ generator' = OptimizerStep(generator)
                /\ total_g_loss' = total_g_loss + g_loss
           ELSE UNCHANGED <<optimizer_g, generator, total_g_loss>>
    /\ batch_trace' = (IF GanCriticSteps THEN <<"optimizer_d">> ELSE <<>>)
                      \o (IF GanGeneratorSteps THEN <<"optimizer_g">> ELSE <<>>)
    \* lines 141-151: the batch and its node counts
    /\ graph_layouts' = LoaderBatch(batch_idx)
    /\ num_nodes' = NumNodes(LoaderBatch(batch_idx))
    \* lines 173, 208
    /\ backward_calls' =
          (IF GanCriticSteps THEN <<Backward("d_loss", TRUE)>> ELSE <<>>)
          \o (IF GanGeneratorSteps THEN <<Backward("g_loss", FALSE)>>
                                   ELSE <<>>)
    /\ batch_idx' = batch_idx + 1
    /\ UNCHANGED <<prog, evalvars, pc, f1vars, argvars, epoch, total_c_loss, classifier,
                   optimizer_c, schedvars, logvars, ganvars, best_accuracy,
                   epochs_without_improvement, val_accuracy, save_path,
                   metrics_pth, generated_layouts, classified, mean_clf_loss>>

\* lines 192-193: samples counted by the accuracy bookkeeping of an epoch
GanTotalSamples == 2 * BatchSize * batch_idx

\* lines 244-249: the guarded accuracy
DiscriminatorAccuracy(total_correct, total_samples) ==
    IF total_samples > 0 THEN Q(100 * total_correct, total_samples)
    ELSE Q(0, 1)

GanNotWorse(avg_loss, best_loss) == ~QLess(best_loss, avg_loss)

\* lines 256, 269: a network improved
GanImproved(avg_loss, best_loss) == QLess(avg_loss, best_loss)

GanPatienceExceeded(count) == count > patience

\* lines 264, 277: the no-improvement counter has reached patience
GanPatienceOut(count) == count >= patience

\* lines 288-297: the row of an epoch (the reconstruction-loss and accuracy
\* columns are left out)
GanRow(avg_g_loss, avg_d_loss) ==
    [epoch |-> epoch + 1, generator_loss |-> avg_g_loss,
     discriminator_loss |-> avg_d_loss]

\* lines 239-241 with an empty loader: total / len(data_loader) raises
GanEpochAbort ==
    /\ prog = "train_gan" /\ pc = "gan_batch"
    /\ batch_idx = n_batches
    /\ n_batches = 0
    /\ pc' = "ZeroDivisionError"
    /\ UNCHANGED <<prog, batchvars, evalvars,
                   f1vars, argvars, loopvars, netvars, optvars,
                   schedvars, logvars, ganvars, combvars>>

\* lines 239-297: the end of an epoch
GanEpochEnd ==
    /\ prog = "train_gan" /\ pc = "gan_batch"
    /\ batch_idx = n_batches
    /\ n_batches > 0
    /\ LET avg_g_loss == Q(total_g_loss, n_batches)
           avg_d_loss == Q(total_d_loss, n_batches)
       IN
        /\ \E total_correct \in {0, GanTotalSamples} :
              discriminator_accuracy' =
                  DiscriminatorAccuracy(total_correct, GanTotalSamples)
        /\ IF GanImproved(avg_g_loss, best_g_loss)
           THEN /\ best_g_loss' = avg_g_loss
                /\ g_epochs_without_improvement' = 0
                /\ save_path_g' = [written |-> TRUE, state_dict |-> generator]
                /\ UNCHANGED stop_training_g
           ELSE /\ g_epochs_without_improvement' = g_epochs_without_improvement + 1
                /\ stop_training_g' =
                      (stop_training_g
                       \/ GanPatienceOut(g_epochs_without_improvement + 1))
                /\ UNCHANGED <<best_g_loss, save_path_g>>
        /\ IF GanImproved(avg_d_loss, best_d_loss)
           THEN /\ best_d_loss' = avg_d_loss
                /\ d_epochs_without_improvement' = 0
                /\ save_path_d' = [written |-> TRUE, state_dict |-> discriminator]
                /\ UNCHANGED stop_training_d
           ELSE /\ d_epochs_without_improvement' = d_epochs_without_improvement + 1
                /\ stop_training_d' =
                      (stop_training_d
                       \/ GanPatienceOut(d_epochs_without_improvement + 1))
                /\ UNCHANGED <<best_d_loss, save_path_d>>
        /\ metrics' = Append(metrics, GanRow(avg_g_loss, avg_d_loss))
        /\ csv' = AppendRow(csv, GanRow(avg_g_loss, avg_d_loss))
    /\ epoch' = epoch + 1
    /\ pc' = "gan_epoch"
    /\ UNCHANGED <<prog, batchvars, evalvars,
                   f1vars, argvars, batch_idx, total_g_loss,
                   total_d_loss, total_c_loss, netvars, optvars, schedvars,
                   combvars>>

NextGan ==
    \/ GanStart
    \/ GanBreak
    \/ GanExhausted
    \/ GanEpochBegin
    \/ GanBatch
    \/ GanEpochAbort
    \/ GanEpochEnd

SpecGan == InitGan /\ [][NextGan]_vars

----------------------------------------------------------------------------
(* evaluate_model (src/train.py 677-746), as far as its result goes: the   *)
(* loader yields n batches of BatchSize graphs, n_correct of them are      *)
(* classified right, and 100 * correct / total raises when total is 0.     *)

evaluate_model(n, n_correct) ==
    IF n * BatchSize = 0
    THEN [raised |-> TRUE, accuracy |-> Q(0, 1)]
    ELSE [raised |-> FALSE, accuracy |-> Q(100 * n_correct, n * BatchSize)]

----------------------------------------------------------------------------
(* train_combined_cgan (src/train.py 301-618)                              *)

\* the values a batch's critic loss, adversarial loss and mean classifier
\* loss are drawn from
DLossVals == {1}
AdvLossVals == {-1}
ClfLossVals == {1, 2}

\* line 303: the default weight of the classifier loss in the generator loss
alpha == 30

\* the numbers of rightly classified graphs an evaluation over n batches is
\* drawn from: none, half, all
Corrects(n) == {0, (n * BatchSize) \div 2, n * BatchSize}

InitCombined ==
    /\ prog = "train_combined_cgan"
    /\ pc = "comb_start"
    /\ preds = <<>> /\ labels = <<>> /\ f1_out = NoResult
    /\ epochs \in 0..MaxEpochs
    /\ patience \in 0..MaxPatience
    /\ n_batches \in 0..MaxBatches
    /\ n_val \in 0..MaxValBatches
    /\ num_z_samples \in 1..MaxZ
    /\ epoch = 0 /\ batch_idx = 0
    /\ total_g_loss = 0 /\ total_d_loss = 0 /\ total_c_loss = 0
    /\ generator = 0 /\ discriminator = 0 /\ classifier = 0
    /\ optimizer_g = 0 /\ optimizer_d = 0 /\ optimizer_c = 0
    /\ scheduler_g = 0 /\ scheduler_d = 0 /\ scheduler_c = 0
    /\ csv = <<>> /\ metrics = <<>>
    /\ best_g_loss = Inf /\ best_d_loss = Inf
    /\ g_epochs_without_improvement = 0 /\ d_epochs_without_improvement = 0
    /\ stop_training_g = FALSE /\ stop_training_d = FALSE
    /\ save_path_g = NoFile /\ save_path_d = NoFile
    /\ discriminator_accuracy = Q(0, 1)
    /\ best_accuracy = Q(0, 1) /\ epochs_without_improvement = 0
    /\ val_accuracy = Q(0, 1)
    /\ save_path = NoFile /\ metrics_pth = <<>>
    /\ generated_layouts = <<>> /\ classified = <<>> /\ batch_trace = <<>>
    /\ mean_clf_loss = 0
    /\ NoBatch

\* lines 340-355, 573-588: a row of the log (the loss, F1, train and test
\* columns are left out)
CombRow(e, acc) == [epoch |-> e, val_accuracy |-> acc]

\* lines 304-338 when a loader is empty: the header is written, then the
\* first evaluate_model over an empty loader raises
CombStartAbort ==
    /\ prog = "train_combined_cgan" /\ pc = "comb_start"
    /\ \/ evaluate_model(n_batches, 0).raised
       \/ evaluate_model(n_val, 0).raised
    /\ csv' = <<"header">>
    /\ pc' = "ZeroDivisionError"
    /\ UNCHANGED <<prog, batchvars, evalvars,
                   f1vars, argvars, loopvars, netvars, optvars,
                   schedvars, metrics, ganvars, combvars>>

\* lines 304-358: header, evaluation of the untrained model, the epoch-0 row
CombStart ==
    /\ prog = "train_combined_cgan" /\ pc = "comb_start"
    /\ ~evaluate_model(n_batches, 0).raised
    /\ ~evaluate_model(n_val, 0).raised
    /\ \E n_correct \in Corrects(n_val) :
        /\ val_accuracy' = evaluate_model(n_val, n_correct).accuracy
        /\ metrics' = <<CombRow(0, evaluate_model(n_val, n_correct).accuracy)>>
        /\ csv' = AppendRow(<<"header">>,
                         CombRow(0, evaluate_model(n_val, n_correct).accuracy))
    /\ pc' = "comb_epoch"
    /\ UNCHANGED <<prog, batchvars, evalvars,
                   f1vars, argvars, loopvars, netvars, optvars,
                   schedvars, ganvars, best_accuracy,
                   epochs_without_improvement, save_path, metrics_pth,
                   generated_layouts, classified, batch_trace, mean_clf_loss>>

\* lines 361-372: an epoch begins, the accumulators are reset
CombEpochBegin ==
    /\ prog = "train_combined_cgan" /\ pc = "comb_epoch"
    /\ epoch < epochs
    /\ total_g_loss' = 0 /\ total_d_loss' = 0 /\ total_c_loss' = 0
    /\ batch_idx' = 0
    /\ pc' = "critic"
    /\ UNCHANGED <<prog, batchvars, evalvars,
                   f1vars, argvars, epoch, netvars, optvars, schedvars,
                   logvars, ganvars, combvars>>

\* line 361: range(epochs) is exhausted
CombExhausted ==
    /\ prog = "train_combined_cgan" /\ pc = "comb_epoch"
    /\ epoch >= epochs
    /\ pc' = "save_metrics"
    /\ UNCHANGED <<prog, batchvars, evalvars,
                   f1vars, argvars, loopvars, netvars, optvars,
                   schedvars, logvars, ganvars, combvars>>

\* a layout the generator returned: the step that asked for it and the
\* noise draw (1..num_z_samples) it was generated from
Layout(step, sample) == [step |-> step, sample |-> sample]

\* lines 396-424: the critic step of a batch
CriticStep ==
    /\ prog = "train_combined_cgan" /\ pc = "critic"
    /\ batch_idx < n_batches
    \* lines 400-405: after the loop generated_layouts is the last draw's layout
    /\ generated_layouts' = Layout("critic", num_z_samples)
    /\ classified' = <<>>
    /\ optimizer_d' = OptimizerStep(optimizer_d)
    /\ discriminator' = OptimizerStep(discriminator)
    /\ \E d_loss \in DLossVals : total_d_loss' = total_d_loss + d_loss
    /\ batch_trace' = <<"optimizer_d">>
    \* lines 370-387: the batch and its node counts
    /\ graph_layouts' = LoaderBatch(batch_idx)
    /\ num_nodes' = NumNodes(LoaderBatch(batch_idx))
    \* line 418
    /\ backward_calls' = <<Backward("d_loss", TRUE)>>
    /\ pc' = "generator"
    /\ UNCHANGED <<prog, evalvars, f1vars, argvars, epoch, batch_idx, total_g_loss,
                   total_c_loss, generator, classifier, optimizer_g,
                   optimizer_c, schedvars, logvars, ganvars, best_accuracy,
                   epochs_without_improvement, val_accuracy, save_path,
                   metrics_pth, mean_clf_loss>>

\* line 442: the layouts the renderer is given in an iteration of the
\* generator loop whose own layouts are gen_layouts
RenderedLayouts(gen_layouts) == generated_layouts

\* lines 428-503: the generator step of a batch
GeneratorStep ==
    /\ prog = "train_combined_cgan" /\ pc = "generator"
    /\ classified' =
          [k \in 1..num_z_samples |->
              [gen_layouts |-> Layout("generator", k),
               images |-> RenderedLayouts(Layout("generator", k))]]
    /\ optimizer_g' = OptimizerStep(optimizer_g)
    /\ generator' = OptimizerStep(generator)
    \* lines 459-463, 503: g_loss = mean_adv_loss + alpha * mean_clf_loss
    /\ \E mean_adv_loss \in AdvLossVals, c_loss \in ClfLossVals :
        /\ mean_clf_loss' = c_loss
        /\ total_g_loss' = total_g_loss + mean_adv_loss + alpha * c_loss
    /\ batch_trace' = Append(batch_trace, "optimizer_g")
    \* line 498
    /\ backward_calls' = Append(backward_calls, Backward("g_loss", TRUE))
    /\ pc' = "classifier"
    /\ UNCHANGED <<prog, graph_layouts, num_nodes, evalvars, f1vars, argvars, epoch, batch_idx, total_d_loss,
                   total_c_loss, discriminator, classifier, optimizer_d,
                   optimizer_c, schedvars, logvars, ganvars, best_accuracy,
                   epochs_without_improvement, val_accuracy, save_path,
                   metrics_pth, generated_layouts>>

ClassifierStepsGenerator == "optimizer_g"

\* line 510: the optimizer whose step() ends the classifier step
ClassifierStepOptimizer == "optimizer_c"

\* lines 502, 510: optimizer.step() advances what that optimizer holds (its
\* own step count and its own network's parameters) and nothing else
StepBy(optimizer, held_by, count) ==
    IF optimizer = held_by THEN OptimizerStep(count) ELSE count

\* lines 505-544: the classifier step, the bookkeeping and the end of a batch
ClassifierStep ==
    /\ prog = "train_combined_cgan" /\ pc = "classifier"
    /\ optimizer_c' = StepBy(ClassifierStepOptimizer, "optimizer_c", optimizer_c)
    /\ classifier' = StepBy(ClassifierStepOptimizer, "optimizer_c", classifier)
    /\ optimizer_g' = StepBy(ClassifierStepOptimizer, "optimizer_g", optimizer_g)
    /\ generator' = StepBy(ClassifierStepOptimizer, "optimizer_g", generator)
    \* line 507: c_loss = mean_clf_loss
    /\ total_c_loss' = total_c_loss + mean_clf_loss
    /\ batch_trace' = Append(batch_trace, ClassifierStepOptimizer)
    \* line 509
    /\ backward_calls' = Append(backward_calls, Backward("c_loss", FALSE))
    /\ batch_idx' = batch_idx + 1
    /\ pc' = "critic"
    /\ UNCHANGED <<prog, graph_layouts, num_nodes, evalvars, f1vars, argvars, epoch, total_g_loss, total_d_loss,
                   discriminator, optimizer_d,
                   schedvars, logvars, ganvars, best_accuracy,
                   epochs_without_improvement, val_accuracy, save_path,
                   metrics_pth, generated_layouts, classified, mean_clf_loss>>

AfterEvaluationLog == "log"

\* lines 555-563: what follows the evaluations and the average losses
AfterEvaluation == "schedulers"

\* lines 547-560: train accuracy, validation and test evaluation
CombEvaluate ==
    /\ prog = "train_combined_cgan" /\ pc = "critic"
    /\ batch_idx = n_batches
    /\ \E n_correct \in Corrects(n_val) :
          IF BatchSize * n_batches = 0 \/ evaluate_model(n_val, n_correct).raised
          THEN pc' = "ZeroDivisionError" /\ UNCHANGED val_accuracy
          ELSE /\ val_accuracy' = evaluate_model(n_val, n_correct).accuracy
               /\ pc' = AfterEvaluation
    /\ UNCHANGED <<prog, batchvars, evalvars,
                   f1vars, argvars, loopvars, netvars, optvars,
                   schedvars, logvars, ganvars, best_accuracy,
                   epochs_without_improvement, save_path, metrics_pth,
                   generated_layouts, classified, batch_trace, mean_clf_loss>>

\* lines 562-565
StepSchedulers ==
    /\ prog = "train_combined_cgan" /\ pc = "schedulers"
    /\ scheduler_g' = scheduler_g + 1
    /\ scheduler_d' = scheduler_d + 1
    /\ scheduler_c' = scheduler_c + 1
    /\ pc' = "log"
    /\ UNCHANGED <<prog, batchvars, evalvars,
                   f1vars, argvars, loopvars, netvars, optvars,
                   logvars, ganvars, combvars>>

\* lines 573-588
LogEpoch ==
    /\ prog = "train_combined_cgan" /\ pc = "log"
    /\ metrics' = Append(metrics, CombRow(epoch + 1, val_accuracy))
    /\ csv' = AppendRow(csv, CombRow(epoch + 1, val_accuracy))
    /\ pc' = "checkpoint"
    /\ UNCHANGED <<prog, batchvars, evalvars,
                   f1vars, argvars, loopvars, netvars, optvars,
                   schedvars, ganvars, combvars>>

CombNotWorse == ~QLess(val_accuracy, best_accuracy)

\* line 591: the gate of the checkpoint
CombImproved == QLess(best_accuracy, val_accuracy)

\* lines 596-606: what torch.save is given
Checkpoint ==
    [written |-> TRUE,
     generator_state_dict |-> generator,
     discriminator_state_dict |-> discriminator,
     classifier_state_dict |-> classifier,
     optimizer_g_state_dict |-> optimizer_g,
     optimizer_d_state_dict |-> optimizer_d,
     optimizer_c_state_dict |-> optimizer_c,
     epoch |-> epoch,
     val_accuracy |-> val_accuracy]

\* lines 590-610
CheckImprovement ==
    /\ prog = "train_combined_cgan" /\ pc = "checkpoint"
    /\ IF CombImproved
       THEN /\ best_accuracy' = val_accuracy
            /\ epochs_without_improvement' = 0
            /\ save_path' = Checkpoint
       ELSE /\ epochs_without_improvement' = epochs_without_improvement + 1
            /\ UNCHANGED <<best_accuracy, save_path>>
    /\ pc' = "early_stop"
    /\ UNCHANGED <<prog, batchvars, evalvars,
                   f1vars, argvars, loopvars, netvars, optvars,
                   schedvars, logvars, ganvars, val_accuracy, metrics_pth,
                   generated_layouts, classified, batch_trace, mean_clf_loss>>

CombPatienceExceeded == epochs_without_improvement > patience

\* line 613
CombPatienceOut == epochs_without_improvement >= patience

AfterReturn == "comb_done"

\* lines 615-618: break leaves the loop for the statement after it
AfterBreak == "save_metrics"

\* lines 612-615: the loop breaks
EarlyStop ==
    /\ prog = "train_combined_cgan" /\ pc = "early_stop"
    /\ CombPatienceOut
    /\ pc' = AfterBreak
    /\ UNCHANGED <<prog, batchvars, evalvars,
                   f1vars, argvars, loopvars, netvars, optvars,
                   schedvars, logvars, ganvars, combvars>>

\* lines 613, 361: no break, on to the next value of range(epochs)
NextEpoch ==
    /\ prog = "train_combined_cgan" /\ pc = "early_stop"
    /\ ~CombPatienceOut
    /\ epoch' = epoch + 1
    /\ pc' = "comb_epoch"
    /\ UNCHANGED <<prog, batchvars, evalvars,
                   f1vars, argvars, batch_idx, total_g_loss,
                   total_d_loss, total_c_loss, netvars, optvars, schedvars,
                   logvars, ganvars, combvars>>

\* line 618
SaveMetrics ==
    /\ prog = "train_combined_cgan" /\ pc = "save_metrics"
    /\ metrics_pth' = Append(metrics_pth, metrics)
    /\ pc' = "comb_done"
    /\ UNCHANGED <<prog, batchvars, evalvars,
                   f1vars, argvars, loopvars, netvars, optvars,
                   schedvars, logvars, ganvars, best_accuracy,
                   epochs_without_improvement, val_accuracy, save_path,
                   generated_layouts, classified, batch_trace, mean_clf_loss>>

NextCombined ==
    \/ CombStartAbort
    \/ CombStart
    \/ CombEpochBegin
    \/ CombExhausted
    \/ CriticStep
    \/ GeneratorStep
    \/ ClassifierStep
    \/ CombEvaluate
    \/ StepSchedulers
    \/ LogEpoch
    \/ CheckImprovement
    \/ EarlyStop
    \/ NextEpoch
    \/ SaveMetrics

SpecCombined == InitCombined /\ [][NextCombined]_vars

NextF1 == CalculateF1

SpecF1 == InitF1 /\ [][NextF1]_vars

----------------------------------------------------------------------------
(* evaluate_model called on its own (src/train.py 677-746), pass by pass.  *)
(* total_f1 is left out: nothing in the model reads it.                    *)

\* the logits the classifier returns for one graph
LogitVals == {<<0, 1>>, <<2, 0>>}

\* the labels of a batch of the loader
EvalLabels == {[i \in 1..BatchSize |-> 0], [i \in 1..BatchSize |-> i % 2]}

\* every variable of the training loops as construction leaves it
Untrained ==
    /\ epochs = 0 /\ patience = 0 /\ n_val = 0
    /\ epoch = 0 /\ batch_idx = 0
    /\ total_g_loss = 0 /\ total_d_loss = 0 /\ total_c_loss = 0
    /\ generator = 0 /\ discriminator = 0 /\ classifier = 0
    /\ optimizer_g = 0 /\ optimizer_d = 0 /\ optimizer_c = 0
    /\ scheduler_g = 0 /\ scheduler_d = 0 /\ scheduler_c = 0
    /\ csv = <<>> /\ metrics = <<>>
    /\ best_g_loss = Inf /\ best_d_loss = Inf
    /\ g_epochs_without_improvement = 0 /\ d_epochs_without_improvement = 0
    /\ stop_training_g = FALSE /\ stop_training_d = FALSE
    /\ save_path_g = NoFile /\ save_path_d = NoFile
    /\ discriminator_accuracy = Q(0, 1)
    /\ best_accuracy = Q(0, 1) /\ epochs_without_improvement = 0
    /\ val_accuracy = Q(0, 1)
    /\ save_path = NoFile /\ metrics_pth = <<>>
    /\ generated_layouts = <<>> /\ classified = <<>> /\ batch_trace = <<>>
    /\ mean_clf_loss = 0

\* lines 677-682: n_batches is len(test_loader)
InitEval ==
    /\ prog = "evaluate_model"
    /\ pc = "eval_loader"
    /\ preds = <<>> /\ f1_out = NoResult
    /\ labels \in EvalLabels
    /\ n_batches \in 0..MaxBatches
    /\ num_z_samples \in 1..MaxZ
    /\ Untrained
    /\ NoBatch

\* lines 684-701: the next batch, its node counts, accum_logits = zeros
EvalBatchBegin ==
    /\ prog = "evaluate_model" /\ pc = "eval_loader"
    /\ batch_idx < n_batches
    /\ graph_layouts' = LoaderBatch(batch_idx)
    /\ num_nodes' = NumNodes(LoaderBatch(batch_idx))
    /\ accum_logits' = [i \in 1..BatchSize |-> <<0, 0>>]
    /\ outputs' = <<>>
    /\ calls' = NoCalls
    /\ pc' = "eval_pass"
    /\ UNCHANGED <<prog, f1vars, argvars, loopvars, netvars, optvars,
                   schedvars, logvars, ganvars, combvars, backward_calls,
                   predicted, correct, total, accuracy>>

KeepLastLogits(accum, out) == out

\* line 730: accum_logits += outputs
AddLogits(accum, out) ==
    [i \in 1..Len(accum) |->
        <<accum[i][1] + out[i][1], accum[i][2] + out[i][2]>>]

\* lines 713-730: one pass of the loop over range(num_z_samples); outputs
\* collects what the classifier returned in the passes of this batch
EvalPass ==
    /\ prog = "evaluate_model" /\ pc = "eval_pass"
    /\ Len(outputs) < num_z_samples
    /\ \E out \in [1..BatchSize -> LogitVals] :
        /\ outputs' = Append(outputs, out)
        /\ accum_logits' = AddLogits(accum_logits, out)
    /\ calls' = [randn |-> calls.randn + 1,
                 generator |-> calls.generator + 1,
                 classifier |-> calls.classifier + 1]
    /\ UNCHANGED <<prog, pc, f1vars, argvars, loopvars, netvars, optvars,
                   schedvars, logvars, ganvars, combvars, batchvars,
                   predicted, correct, total, accuracy>>

\* line 733: accum_logits /= float(num_z_samples)
AverageLogits(accum, n) ==
    [i \in 1..Len(accum) |-> <<Q(accum[i][1], n), Q(accum[i][2], n)>>]

\* line 735: torch.max(accum_logits, 1) gives, for each row, the index of
\* its first maximal value
TorchMax(logits) ==
    [i \in 1..Len(logits) |-> IF QLess(logits[i][1], logits[i][2]) THEN 1
                                                                  ELSE 0]

\* lines 733-737: after the passes, the average, the prediction, the counts
EvalPredict ==
    /\ prog = "evaluate_model" /\ pc = "eval_pass"
    /\ Len(outputs) = num_z_samples
    /\ accum_logits' = AverageLogits(accum_logits, num_z_samples)
    /\ predicted' = TorchMax(AverageLogits(accum_logits, num_z_samples))
    /\ total' = total + Len(labels)
    /\ correct' = correct + Cardinality(
          {i \in 1..Len(labels) :
              TorchMax(AverageLogits(accum_logits, num_z_samples))[i]
                  = labels[i]})
    /\ batch_idx' = batch_idx + 1
    /\ pc' = "eval_loader"
    /\ UNCHANGED <<prog, f1vars, argvars, epoch, total_g_loss, total_d_loss,
                   total_c_loss, netvars, optvars, schedvars, logvars,
                   ganvars, combvars, batchvars, outputs, calls, accuracy>>

\* lines 743-746: accuracy = 100 * correct / total, and the return
EvalReturn ==
    /\ prog = "evaluate_model" /\ pc = "eval_loader"
    /\ batch_idx = n_batches
    /\ IF evaluate_model(n_batches, correct).raised
          THEN pc' = "ZeroDivisionError" /\ UNCHANGED accuracy
          ELSE /\ pc' = "eval_done"
               /\ accuracy' = evaluate_model(n_batches, correct).accuracy
    /\ UNCHANGED <<prog, f1vars, argvars, loopvars, netvars, optvars,
                   schedvars, logvars, ganvars, combvars, batchvars,
                   accum_logits, outputs, predicted, calls, correct, total>>

NextEval == EvalBatchBegin \/ EvalPass \/ EvalPredict \/ EvalReturn

SpecEval == InitEval /\ [][NextEval]_vars

----------------------------------------------------------------------------
(* The derivation of num_nodes (lines 148-151, 384-387, 691-694) on its    *)
(* own, over every batch of layouts whose rows come from RowVals.          *)

RowVals == {<<0, 0>>, <<1, -1>>, <<0, 1>>}

InitNodes ==
    /\ prog = "num_nodes"
    /\ pc = "nodes_call"
    /\ preds = <<>> /\ labels = <<>> /\ f1_out = NoResult
    /\ n_batches = 0 /\ num_z_samples = 0
    /\ Untrained
    /\ graph_layouts \in [1..BatchSize -> [1..MaxNodes -> RowVals]]
    /\ num_nodes = <<>> /\ backward_calls = <<>>
    /\ accum_logits = <<>> /\ outputs = <<>> /\ predicted = <<>>
    /\ calls = NoCalls /\ correct = 0 /\ total = 0 /\ accuracy = Q(0, 1)

CountNodes ==
    /\ prog = "num_nodes" /\ pc = "nodes_call"
    /\ num_nodes' = NumNodes(graph_layouts)
    /\ pc' = "nodes_done"
    /\ UNCHANGED <<prog, f1vars, argvars, loopvars, netvars, optvars,
                   schedvars, logvars, ganvars, combvars, graph_layouts,
                   backward_calls, evalvars>>

NextNodes == CountNodes

SpecNodes == InitNodes /\ [][NextNodes]_vars

----------------------------------------------------------------------------

Init == InitF1 \/ InitGan \/ InitCombined \/ InitEval \/ InitNodes

Next == NextF1 \/ NextGan \/ NextCombined \/ NextEval \/ NextNodes

Spec == Init /\ [][Next]_vars

----------------------------------------------------------------------------
(* Properties                                                              *)

InCombined == prog = "train_combined_cgan"
InGan == prog = "train_gan"

\* the positions inside the body of an epoch of the combined loop
CombBody ==
    {"critic", "generator", "classifier", "schedulers", "log", "checkpoint",
     "early_stop"}

\* C1: in the combined loop every batch steps optimizer_d, then optimizer_g,
\* then optimizer_c, once each; after k processed batches each of the three
\* optimizers has stepped exactly k times.
C1_StepOrder ==
    InCombined =>
        /\ pc \in CombBody =>
              optimizer_c = epoch * n_batches + batch_idx
        /\ pc = "generator" =>
              /\ batch_trace = <<"optimizer_d">>
              /\ optimizer_d = optimizer_c + 1
              /\ optimizer_g = optimizer_c
        /\ pc = "classifier" =>
              /\ batch_trace = <<"optimizer_d", "optimizer_g">>
              /\ optimizer_d = optimizer_c + 1
              /\ optimizer_g = optimizer_c + 1
        /\ pc \notin {"generator", "classifier"} =>
              /\ optimizer_d = optimizer_c
              /\ optimizer_g = optimizer_c
        /\ (pc = "critic" /\ batch_idx > 0) =>
              batch_trace = <<"optimizer_d", "optimizer_g", "optimizer_c">>

C1_Witness ==
    /\ InCombined /\ pc = "critic"
    /\ epoch = 1 /\ batch_idx = 2
    /\ optimizer_d = 4 /\ optimizer_g = 4 /\ optimizer_c = 4

\* C2: data rows of the log (header excluded): the combined loop has N + 1
\* of them after N completed epochs without early stop, the pretraining loop
\* has as many as epochs were run.
C2_RowCount ==
    /\ (InCombined /\ pc = "comb_epoch") => Len(csv) - 1 = epoch + 1
    /\ (InCombined /\ pc \in {"save_metrics", "comb_done"}
          /\ ~(epochs_without_improvement >= patience)) =>
              Len(csv) - 1 = epochs + 1
    /\ (InGan /\ pc \in {"gan_epoch", "gan_done"}) => Len(csv) - 1 = epoch
    /\ (InGan /\ pc = "gan_done" /\ ~(stop_training_g /\ stop_training_d)) =>
              Len(csv) - 1 = epochs

C2_Witness ==
    /\ InCombined /\ pc = "comb_done"
    /\ epochs = 3 /\ epoch = 3
    /\ epochs_without_improvement < patience
    /\ Len(csv) = 5

\* the first m entries of a sequence of losses are strictly increasing
StrictlyIncreasing(losses, m) ==
    \A i \in 1..(m - 1) : QLess(losses[i], losses[i + 1])

Min(a, b) == IF a <= b THEN a ELSE b

GeneratorLosses == [i \in 1..Len(metrics) |-> metrics[i].generator_loss]
DiscriminatorLosses == [i \in 1..Len(metrics) |-> metrics[i].discriminator_loss]

\* C3: in the pretraining loop, for each network and every patience >= 1,
\* when its epoch-average loss is strictly increasing over the first
\* patience + 1 epochs its stop flag is set at the end of epoch patience + 1
\* and not before.
C3_StopAtPatiencePlusOne ==
    (InGan /\ patience >= 1) =>
        /\ StrictlyIncreasing(GeneratorLosses, Min(Len(metrics), patience + 1))
              => (stop_training_g <=> Len(metrics) >= patience + 1)
        /\ StrictlyIncreasing(DiscriminatorLosses, Min(Len(metrics), patience + 1))
              => (stop_training_d <=> Len(metrics) >= patience + 1)

C3_Witness ==
    /\ InGan /\ pc = "gan_epoch"
    /\ patience = 2 /\ Len(metrics) = 3
    /\ StrictlyIncreasing(GeneratorLosses, 3)
    /\ stop_training_g
    /\ ~stop_training_d

\* C4: in the pretraining loop a stop flag, once set, stays set, and the
\* frozen network's optimizer never steps again, while a network that is not
\* frozen steps once in every batch.
C4_FreezePermanent ==
    [][InGan =>
        /\ stop_training_g =>
              /\ stop_training_g'
              /\ optimizer_g' = optimizer_g
              /\ generator' = generator
        /\ stop_training_d =>
              /\ stop_training_d'
              /\ optimizer_d' = optimizer_d
              /\ discriminator' = discriminator
        /\ (batch_idx' = batch_idx + 1 /\ ~stop_training_g) =>
              optimizer_g' = optimizer_g + 1
        /\ (batch_idx' = batch_idx + 1 /\ ~stop_training_d) =>
              optimizer_d' = optimizer_d + 1]_vars

C4_Witness ==
    /\ InGan /\ pc = "gan_batch"
    /\ stop_training_g /\ ~stop_training_d
    /\ batch_idx = n_batches /\ n_batches > 0
    /\ optimizer_d = optimizer_g + n_batches

\* C5: in the combined loop a checkpoint is written at the end of an epoch
\* exactly when that epoch's validation accuracy is strictly greater than
\* the best so far, and what is written is the state of the three networks
\* and the three optimizers at the end of that epoch.
C5_CheckpointGate ==
    [][InCombined =>
        /\ pc # "checkpoint" => save_path' = save_path
        /\ pc = "checkpoint" =>
              ((save_path' # save_path) <=> QLess(best_accuracy, val_accuracy))
        /\ save_path' # save_path =>
              /\ save_path'.written
              /\ save_path'.generator_state_dict = generator
              /\ save_path'.discriminator_state_dict = discriminator
              /\ save_path'.classifier_state_dict = classifier
              /\ save_path'.optimizer_g_state_dict = optimizer_g
              /\ save_path'.optimizer_d_state_dict = optimizer_d
              /\ save_path'.optimizer_c_state_dict = optimizer_c
              /\ save_path'.optimizer_c_state_dict = (epoch + 1) * n_batches
              /\ save_path'.val_accuracy = val_accuracy]_vars

C5_Witness ==
    /\ InCombined /\ pc = "early_stop"
    /\ epoch = 2
    /\ save_path.written
    /\ save_path.epoch = 2
    /\ Len(metrics) = 4
    /\ QEq(metrics[3].val_accuracy, metrics[2].val_accuracy)

\* C6: in the combined loop the one no-improvement counter goes up by one at
\* the end of each epoch without improvement; the loop is left at the end of
\* the first epoch at which the counter has reached patience, after which no
\* batch is processed and no optimizer steps; the loop is left only at an
\* epoch boundary.
C6_SharedEarlyStop ==
    [][InCombined =>
        /\ epochs_without_improvement' # epochs_without_improvement =>
              pc = "checkpoint"
        /\ (pc = "checkpoint" /\ ~QLess(best_accuracy, val_accuracy)) =>
              epochs_without_improvement' = epochs_without_improvement + 1
        /\ (pc = "early_stop" /\ epochs_without_improvement >= patience) =>
              pc' = "save_metrics"
        /\ (pc = "early_stop" /\ epochs_without_improvement < patience) =>
              pc' = "comb_epoch"
        /\ pc' = "save_metrics" => pc \in {"early_stop", "comb_epoch"}
        /\ pc \in {"save_metrics", "comb_done"} =>
              /\ pc' \in {"save_metrics", "comb_done"}
              /\ batch_idx' = batch_idx
              /\ optvars' = optvars
              /\ netvars' = netvars]_vars

C6_Witness ==
    /\ InCombined /\ pc = "comb_done"
    /\ patience = 2 /\ epochs = 3 /\ epoch = 1
    /\ epochs_without_improvement = 2
    /\ optimizer_d = 2 * n_batches

\* C7: in the generator step every image that is classified is rendered from
\* the layout generated in the same iteration, never from a layout of the
\* critic step.
C7_ClassifiesFreshLayout ==
    InCombined =>
        \A k \in 1..Len(classified) :
            /\ classified[k].images = classified[k].gen_layouts
            /\ classified[k].images.step # "critic"

\* C8: an empty loader never makes a loop fail: evaluation over no batches
\* returns default values and the pretraining loop's guard yields 0.0.
C8_EmptyLoaderSafe ==
    /\ (InCombined /\ (n_val = 0 \/ n_batches = 0)) => pc # "ZeroDivisionError"
    /\ (InGan /\ n_batches = 0) => pc # "ZeroDivisionError"

Disjoint(p, l) == \A i \in 1..Len(p) : p[i] # l[i]

\* within 2 * 1e-8 below 1
NearOne(x) == RLeq(x, Rat(1)) /\ RLeq(Rat(1), RAdd(x, RMul(Rat(2), Eps)))

\* C9 as stated, for vectors that are not empty: F1 is 0 when predictions
\* and labels disagree everywhere and 1 (up to the epsilon) when they are
\* equal, also without a positive label.
C9_Original ==
    (prog = "calculate_f1" /\ pc = "f1_done" /\ Len(preds) > 0) =>
        /\ Disjoint(preds, labels) => RIsZero(f1_out.f1)
        /\ preds = labels => NearOne(f1_out.f1)

\* C9 as amended: F1 is 0 when predictions and labels disagree everywhere;
\* when they are equal F1 is 1 (up to the epsilon) if some label is positive
\* and 0 if none is.
C9_F1Extremes ==
    (prog = "calculate_f1" /\ pc = "f1_done") =>
        /\ Disjoint(preds, labels) => RIsZero(f1_out.f1)
        /\ (preds = labels /\ SumSeq(labels) > 0) => NearOne(f1_out.f1)
        /\ (preds = labels /\ SumSeq(labels) = 0) => RIsZero(f1_out.f1)

C9_Witness ==
    /\ prog = "calculate_f1" /\ pc = "f1_done"
    /\ preds = <<1, 0, 1>> /\ labels = <<1, 0, 1>>
    /\ NearOne(f1_out.f1)
    /\ ~RIsZero(f1_out.f1)

\* C10: on every way out of the epoch loop of the combined loop the metrics
\* history is saved exactly once, after the last row of the log was written,
\* and holds the epoch-0 row and one row for every epoch that was run.
C10_MetricsBackup ==
    InCombined =>
        /\ pc # "comb_done" => metrics_pth = <<>>
        /\ pc = "save_metrics" => ENABLED SaveMetrics
        /\ ~(ENABLED NextCombined) => pc \in {"comb_done", "ZeroDivisionError"}
        /\ pc = "comb_done" =>
              /\ Len(metrics_pth) = 1
              /\ metrics_pth[1] = metrics
              /\ Tail(csv) = metrics
              /\ \A i \in 1..Len(metrics) : metrics[i].epoch = i - 1
              /\ (Len(metrics) - 1) * n_batches = optimizer_d

C10_Witness ==
    /\ InCombined /\ pc = "comb_done"
    /\ epochs_without_improvement >= patience
    /\ epochs = 3
    /\ Len(metrics_pth) = 1
    /\ Len(metrics_pth[1]) = 3

\* C11: in the pretraining loop, once both stop flags are set no batch is
\* processed, no log row is written and no checkpoint is written: the loop
\* ends at the head of the next epoch.
C11_BothFrozenEnds ==
    [][(InGan /\ stop_training_g /\ stop_training_d) =>
        /\ batch_idx' = batch_idx
        /\ csv' = csv
        /\ metrics' = metrics
        /\ save_path_g' = save_path_g
        /\ save_path_d' = save_path_d
        /\ optvars' = optvars
        /\ netvars' = netvars
        /\ epoch' = epoch
        /\ pc' \in {pc, "gan_done"}]_vars

C11_Witness ==
    /\ InGan /\ pc = "gan_done"
    /\ stop_training_g /\ stop_training_d
    /\ epochs = 3 /\ epoch = 2
    /\ Len(csv) = 3
    /\ optimizer_d = 2 * n_batches

\* C12: in the combined loop a network's parameters change only in the step
\* of its own optimizer, which leaves the other two networks unchanged; the
\* evaluations, the logging, the scheduler steps and the checkpointing change
\* no parameters at all.
C12_ParameterFrame ==
    [][InCombined =>
        /\ (discriminator' # discriminator =>
               /\ pc = "critic"
               /\ optimizer_d' = optimizer_d + 1
               /\ generator' = generator /\ classifier' = classifier)
        /\ (generator' # generator =>
               /\ pc = "generator"
               /\ optimizer_g' = optimizer_g + 1
               /\ discriminator' = discriminator /\ classifier' = classifier)
        /\ (classifier' # classifier =>
               /\ pc = "classifier"
               /\ optimizer_c' = optimizer_c + 1
               /\ generator' = generator /\ discriminator' = discriminator)
        /\ (pc \notin {"critic", "generator", "classifier"} =>
               netvars' = netvars)
        /\ (schedvars' # schedvars \/ logvars' # logvars
               \/ save_path' # save_path \/ val_accuracy' # val_accuracy
               \/ metrics_pth' # metrics_pth =>
               netvars' = netvars)]_vars

C12_Witness ==
    /\ InCombined /\ pc = "early_stop"
    /\ save_path.written
    /\ scheduler_g = 2
    /\ generator = 2 * n_batches /\ discriminator = 2 * n_batches
    /\ classifier = 2 * n_batches /\ n_batches = 2

InEval == prog = "evaluate_model"

\* the sum, over the passes of the batch, of graph i's logit for class c
LogitSum(i, c) == SumSeq([k \in 1..Len(outputs) |-> outputs[k][i][c + 1]])

\* class c maximises the pair of values v (v[1] for class 0, v[2] for class 1)
IsArgMax(c, v) == ~QLess(v[c + 1], v[2 - c])

\* C13: when evaluate_model has finished a batch it has made num_z_samples
\* noise draws, generator passes and classifier passes for it (one of each
\* when num_z_samples = 1), and the predicted class of every graph maximises
\* the logits summed over those passes and divided by num_z_samples (the
\* logits of the single pass when num_z_samples = 1).
C13_AveragedArgMax ==
    (InEval /\ pc \in {"eval_loader", "eval_done"} /\ batch_idx > 0) =>
        /\ calls = [randn |-> num_z_samples, generator |-> num_z_samples,
                    classifier |-> num_z_samples]
        /\ Len(outputs) = num_z_samples
        /\ \A i \in 1..BatchSize :
              /\ predicted[i] \in {0, 1}
              /\ IsArgMax(predicted[i],
                          <<Q(LogitSum(i, 0), num_z_samples),
                            Q(LogitSum(i, 1), num_z_samples)>>)
        /\ (num_z_samples = 1 =>
              /\ calls = [randn |-> 1, generator |-> 1, classifier |-> 1]
              /\ \A i \in 1..BatchSize :
                    IsArgMax(predicted[i], <<Q(outputs[1][i][1], 1),
                                             Q(outputs[1][i][2], 1)>>))

C13_Witness ==
    /\ InEval /\ pc = "eval_done" /\ batch_idx = 2
    /\ num_z_samples = 2
    /\ outputs[1][1] = <<2, 0>> /\ outputs[2][1] = <<0, 1>>
    /\ predicted[1] = 0
    /\ outputs[1][2] = <<0, 1>> /\ outputs[2][2] = <<0, 1>>
    /\ predicted[2] = 1

\* the rows of a layout that are not the zero row
NonZeroRows(layout) == {r \in 1..Len(layout) : layout[r] # <<0, 0>>}

\* C14: wherever num_nodes has been derived for a batch (in either training
\* loop, in evaluate_model, or on any batch of layouts), the num_nodes of
\* every graph is the number of rows of its input layout that are not zero,
\* and it is 0 for a graph whose rows are all zero.
C14_NumNodes ==
    /\ (prog \in {"train_gan", "train_combined_cgan", "evaluate_model"}
          /\ graph_layouts # <<>>) => num_nodes # <<>>
    /\ num_nodes # <<>> =>
          /\ Len(num_nodes) = Len(graph_layouts)
          /\ \A i \in 1..Len(graph_layouts) :
                /\ num_nodes[i] = Cardinality(NonZeroRows(graph_layouts[i]))
                /\ ((\A r \in 1..Len(graph_layouts[i]) :
                        graph_layouts[i][r] = <<0, 0>>) => num_nodes[i] = 0)

C14_Witness ==
    /\ InGan /\ batch_idx = 2
    /\ graph_layouts[1][1] # <<0, 0>> /\ graph_layouts[1][2] # <<0, 0>>
    /\ graph_layouts[2] = [r \in 1..MaxNodes |-> <<0, 0>>]
    /\ num_nodes[1] = 2 /\ num_nodes[2] = 0

\* C15: in the pretraining loop, once a network is frozen its best loss is
\* never lowered again and its checkpoint file is never rewritten.
C15_FrozenBestFixed ==
    [][InGan =>
        /\ (stop_training_g =>
               best_g_loss' = best_g_loss /\ save_path_g' = save_path_g)
        /\ (stop_training_d =>
               best_d_loss' = best_d_loss /\ save_path_d' = save_path_d)]_vars

Neg(q) == Q(0 - q.num, q.den)

\* the value epoch k (1-based) logged for a tracked metric; an accuracy is
\* negated so that better is less, and the first row of the combined loop's
\* metrics is the epoch-0 baseline, which is not a training epoch
Tracked(metric, k) ==
    IF metric = "generator_loss" THEN metrics[k].generator_loss
    ELSE IF metric = "discriminator_loss" THEN metrics[k].discriminator_loss
    ELSE Neg(metrics[k + 1].val_accuracy)

\* after the metric's first k epochs, starting from the best value start:
\* best is the best (least) value so far, count the number of most recent
\* epochs in a row that did not improve on the best of the epochs before
RECURSIVE Track(_, _, _)
Track(metric, k, start) ==
    IF k <= 0 THEN [best |-> start, count |-> 0]
    ELSE LET before == Track(metric, k - 1, start)
         IN IF QLess(Tracked(metric, k), before.best)
            THEN [best |-> Tracked(metric, k), count |-> 0]
            ELSE [best |-> before.best, count |-> before.count + 1]

\* the counter and the best value are those of the metric's first k epochs
Follows(counter, best, metric, k, start) ==
    LET t == Track(metric, k, start)
    IN counter = t.count /\ QEq(best, t.best)

\* C16: in both loops, at every epoch boundary each no-improvement counter
\* is the number of most recent epochs in a row that did not improve the
\* tracked metric (average loss strictly below the best so far, validation
\* accuracy strictly above the best so far): an improving epoch sets it to
\* 0 and any other epoch adds exactly 1; and the tracked best value is the
\* best of the epochs so far, so the best loss never increases and the best
\* accuracy never decreases.
C16_Counters ==
    /\ InGan =>
          /\ Follows(g_epochs_without_improvement, best_g_loss,
                     "generator_loss", Len(metrics), Inf)
          /\ Follows(d_epochs_without_improvement, best_d_loss,
                     "discriminator_loss", Len(metrics), Inf)
    /\ (InCombined /\ pc # "checkpoint") =>
          Follows(epochs_without_improvement, Neg(best_accuracy),
                  "val_accuracy", Len(metrics) - 1, Q(0, 1))
    \* between the row and the decision the counter and the best value are
    \* still those of the epoch before
    /\ (InCombined /\ pc = "checkpoint") =>
          Follows(epochs_without_improvement, Neg(best_accuracy),
                  "val_accuracy", Len(metrics) - 2, Q(0, 1))

C16_Witness ==
    /\ InGan /\ patience = 2 /\ Len(metrics) = 3
    /\ g_epochs_without_improvement = 2
    /\ d_epochs_without_improvement = 0
    /\ QLess(best_d_loss, best_g_loss)

\* the steps each scheduler has taken equal n
SchedulersAt(n) == scheduler_g = n /\ scheduler_d = n /\ scheduler_c = n

\* the rows of the CSV file are the header, the epoch-0 row and one row per
\* completed epoch
SchedulersMatchRows == SchedulersAt(Len(csv) - 2)

\* C17: at the end of every epoch of the combined loop, the one that breaks
\* included, the evaluation comes first, then one step of each scheduler,
\* then the CSV row, then the checkpoint decision, then the early-stop
\* check; so each scheduler has stepped once per completed epoch, and a
\* written checkpoint always has the CSV row of its epoch.
C17_EpochEndOrder ==
    [][InCombined =>
        \* the evaluation, before this epoch's scheduler steps and row
        /\ (pc = "critic" /\ pc' \notin {"generator", "ZeroDivisionError"} =>
               /\ pc' = "schedulers"
               /\ SchedulersAt(epoch) /\ Len(csv) = epoch + 2
               /\ UNCHANGED <<schedvars, csv, save_path,
                              epochs_without_improvement>>)
        \* then the schedulers, one step each
        /\ (schedvars' # schedvars =>
               /\ pc = "schedulers" /\ pc' = "log"
               /\ SchedulersAt(epoch) /\ SchedulersAt(epoch + 1)'
               /\ Len(csv) = epoch + 2
               /\ UNCHANGED <<csv, save_path, epochs_without_improvement>>)
        /\ (pc = "schedulers" => schedvars' # schedvars)
        \* then the row
        /\ (csv' # csv /\ pc # "comb_start" =>
               /\ pc = "log" /\ pc' = "checkpoint"
               /\ SchedulersAt(epoch + 1)
               /\ Len(csv') = epoch + 3
               /\ csv'[Len(csv')].epoch = epoch + 1
               /\ UNCHANGED <<save_path, epochs_without_improvement>>)
        /\ (pc = "log" => csv' # csv)
        \* then the checkpoint decision
        /\ (save_path' # save_path
               \/ epochs_without_improvement' # epochs_without_improvement =>
               /\ pc = "checkpoint" /\ pc' = "early_stop"
               /\ SchedulersAt(epoch + 1)
               /\ Len(csv) = epoch + 3)
        /\ (pc = "checkpoint" =>
               save_path' # save_path
               \/ epochs_without_improvement' # epochs_without_improvement)
        \* then the early-stop check, which changes nothing
        /\ (pc = "early_stop" =>
               /\ pc' \in {"save_metrics", "comb_epoch"}
               /\ SchedulersAt(epoch + 1) /\ Len(csv) = epoch + 3
               /\ UNCHANGED <<schedvars, csv, save_path,
                              epochs_without_improvement>>)
        \* one scheduler step per completed epoch
        /\ (pc' \notin {"log", "comb_start", "ZeroDivisionError"} =>
               SchedulersMatchRows')
        \* no checkpoint without the row of its epoch
        /\ (save_path'.written =>
               /\ Len(csv') >= save_path'.epoch + 3
               /\ csv'[save_path'.epoch + 3].epoch = save_path'.epoch + 1
               /\ QEq(csv'[save_path'.epoch + 3].val_accuracy,
                      save_path'.val_accuracy))]_vars

C17_Witness ==
    /\ InCombined /\ pc = "save_metrics"
    /\ CombPatienceOut /\ epoch = 1 /\ epochs = 3
    /\ SchedulersAt(2)
    /\ Len(csv) = 4
    /\ save_path.written /\ save_path.epoch = 0

\* C18: when a batch of either training loop is over, every backward call
\* of the batch that was followed by another one retained the graph and the
\* last one did not.
C18_RetainOnlyWhenFollowed ==
    (InGan \/ (InCombined /\ pc \notin {"generator", "classifier"})) =>
        \A i \in 1..Len(backward_calls) :
            backward_calls[i].retain_graph <=> (i < Len(backward_calls))

\* the validation accuracy logged for training epoch e (1-based); the first
\* row of metrics is the epoch-0 baseline
EpochValAccuracy(e) == metrics[e + 1].val_accuracy

\* the training epochs whose checkpoint decision has been taken
DecidedEpochs == 1..(Len(metrics) - 1)

\* C19: in the combined loop, once the checkpoint decision of an epoch is
\* taken, best_accuracy is the maximum of 0 and the validation accuracies of
\* the training epochs so far (the epoch-0 baseline does not count); a
\* written checkpoint stores that value and the state at the end of the
\* earliest epoch that reached it; and a checkpoint is written exactly when
\* some epoch's validation accuracy exceeded 0.
C19_BestAccuracy ==
    (InCombined /\ pc # "checkpoint") =>
        /\ ~QLess(best_accuracy, Q(0, 1))
        /\ \A e \in DecidedEpochs : ~QLess(best_accuracy, EpochValAccuracy(e))
        /\ \/ QEq(best_accuracy, Q(0, 1))
           \/ \E e \in DecidedEpochs : QEq(best_accuracy, EpochValAccuracy(e))
        /\ save_path.written <=>
              \E e \in DecidedEpochs : QLess(Q(0, 1), EpochValAccuracy(e))
        /\ save_path.written =>
              /\ QEq(save_path.val_accuracy, best_accuracy)
              /\ save_path.epoch + 1 \in DecidedEpochs
              /\ QEq(EpochValAccuracy(save_path.epoch + 1), best_accuracy)
              /\ \A e \in 1..save_path.epoch :
                    QLess(EpochValAccuracy(e), best_accuracy)
              /\ save_path.generator_state_dict
                    = (save_path.epoch + 1) * n_batches
              /\ save_path.discriminator_state_dict
                    = (save_path.epoch + 1) * n_batches
              /\ save_path.classifier_state_dict
                    = (save_path.epoch + 1) * n_batches

C19_Witness ==
    /\ InCombined /\ pc = "early_stop" /\ Len(metrics) = 3
    /\ QEq(metrics[1].val_accuracy, Q(100, 1))
    /\ QEq(EpochValAccuracy(1), Q(50, 1))
    /\ QEq(EpochValAccuracy(2), Q(50, 1))
    /\ QEq(best_accuracy, Q(50, 1))
    /\ save_path.written /\ save_path.epoch = 0
    /\ generator = 2 * n_batches

====
